---- MODULE Spec2Model ----
(***************************************************************************)
(* Verification model of the LaTeX editor (yashpatel5400/slim):            *)
(*   - the auto-compiling editor  (latex-editor/app/components/Editor.tsx) *)
(*   - the compile endpoint POST  (latex-editor/app/services/              *)
(*                                 documentService.ts, second half)        *)
(*   - the text/math segmenter processLatex (unnamed/part_006, part_007)   *)
(*   - the document editor        (unnamed/part_005)                       *)
(* Each component has its own specification over the shared variables.     *)
(***************************************************************************)
EXTENDS Integers, Sequences, FiniteSets, TLC

VARIABLES
    \* ---- auto-compiling editor (Editor.tsx) ----
    latexCode,        \* useState latexCode
    pdfUrl,           \* useState pdfUrl ('' is 0, an object URL is its number)
    isCompiling,      \* useState isCompiling
    error,            \* useState error ("null" or the message)
    compileTimeout,   \* useRef compileTimeout.current (0 is null, else a timer id)
    pdfUrlRef,        \* useRef pdfUrlRef.current
    mounted,          \* the component is mounted
    timers,           \* pending setTimeout callbacks: [id, remaining, code]
    inflight,         \* numbers of the fetch requests not yet resolved
    issued,           \* number of fetch requests sent so far (they are numbered 1..issued)
    created,          \* number of URL.createObjectURL calls so far
    revoked,          \* object URLs passed to URL.revokeObjectURL
    \* ---- history of the editor, read by the claims only ----
    handled,          \* the response handled last: [req, ok, url, msg]
    newest,           \* how the response of request `issued` was handled, or NotYet
    sentFaithful,     \* every request was sent a full window after the last edit, with the current text
    sinceEdit,        \* ticks since the last edit (capped at the window)
    callsSinceEdit,   \* compileLatex calls since the last edit
    sentSinceEdit,    \* fetch requests sent since the last edit
    burstEdits,       \* edits of the current burst (capped at 2)
    streak,           \* successes handled since the last failure or empty-source compile
    spoiled,          \* a failure or an empty-source compile has happened
    emptySinceSend,   \* an empty-source compile ran after the last request was sent
    \* ---- compile endpoint POST (documentService.ts:164-245) ----
    now,              \* Date.now(), in milliseconds
    serverUp,         \* the server process has not died of an uncaught exception
    fs,               \* the files of tmpdir(): <<stamp, extension>> -> data
    pc,               \* invocation -> where it is in POST
    content,          \* invocation -> content of the request body
    tempFile,         \* invocation -> the stamp in latex-<stamp>.tex (outputFile shares it)
    launched,         \* invocation -> spawn('pdflatex') started a process
    exitCode,         \* invocation -> the code of the 'close' event
    pdfBuffer,        \* invocation -> what fs.readFile(outputFile) returned
    response,         \* invocation -> [status, kind, body] of the response
    \* ---- processLatex (part_006:102-167, part_007:116-186) ----
    segCode,          \* the argument `code`, a sequence of characters
    parts,            \* the array `parts`: [type, content]
    lastIndex,        \* `lastIndex` (and mathRegex.lastIndex): characters consumed
    segPc,            \* "scan" while the exec loop runs, "done" after it, "rendered" at the end
    rendered,         \* what the render loop made of each part: [type, displayMode, mathContent, threw, html]
    html,             \* the string `html` the render loop builds, as a sequence of tokens
    \* ---- document editor (unnamed/part_005) ----
    docContent,       \* useState content
    docId,            \* document?.id of useState document (0 is no document)
    docIsNew,         \* useState isNew
    docPdfUrl,        \* useState pdfUrl
    docIsCompiling,   \* useState isCompiling
    docError,         \* useState error
    docCompileTimeout,\* useRef compileTimeout.current (0 is null, else a timer id)
    docPdfUrlRef,     \* useRef pdfUrlRef.current
    docMounted,       \* the component is mounted
    docAutoSaveId,    \* timeoutId of the last run of the auto-save effect (0 is none)
    docAutoCompileId, \* timeoutId of the last run of the auto-compile effect
    docTimers,        \* pending setTimeout callbacks: [id, kind, remaining, content, doc]
    docInflight,      \* fetch requests not yet resolved: [req, body]
    docIssued,        \* number of fetch requests sent so far
    docCreated,       \* number of URL.createObjectURL calls so far
    docRevoked,       \* object URLs passed to URL.revokeObjectURL
    docStore,         \* the documents array in localStorage: [id, content, createdAt, updatedAt]
    \* ---- history of the document editor, read by the claims only ----
    docTriggers,      \* edits, Compile presses and the load not yet answered by a request (capped at 2)
    docFailedSince,   \* a compile failure was published and no edit or Compile press followed
    docOps,           \* the object-URL calls of the last success handler, in their order
    docReplaced,      \* the pending compile timer took the place of one that was still pending
    \* ---- document store (documentService.ts:1-102), on docStore ----
    storeNow,         \* Date.now() of the page that uses the store, in milliseconds
    lastCall          \* the last call on the store and what it returned or threw

editorState == <<latexCode, pdfUrl, isCompiling, error, compileTimeout, pdfUrlRef,
                 mounted, timers, inflight, issued, created, revoked>>
editorHistory == <<handled, newest, sentFaithful, sinceEdit, callsSinceEdit,
                   sentSinceEdit, burstEdits, streak, spoiled, emptySinceSend>>
editorVars == <<editorState, editorHistory>>

endpointVars == <<now, serverUp, fs, pc, content, tempFile, launched, exitCode,
                  pdfBuffer, response>>

segVars == <<segCode, parts, lastIndex, segPc, rendered, html>>

docState == <<docContent, docId, docIsNew, docPdfUrl, docIsCompiling, docError,
              docCompileTimeout, docPdfUrlRef, docMounted, docAutoSaveId,
              docAutoCompileId, docTimers, docInflight, docIssued, docCreated,
              docRevoked, docStore>>
docHistory == <<docTriggers, docFailedSince, docOps, docReplaced>>
docVars == <<docState, docHistory>>

storeVars == <<storeNow, lastCall>>

vars == <<editorVars, endpointVars, segVars, docVars, storeVars>>

-----------------------------------------------------------------------------
(* Bounds of the model *)
MaxRequests == 3
MaxTimers == 3
MaxInvocations == 2
MaxClock == 1
MaxLen == 5

(* Program constants *)
\* setTimeout(..., 1000) of the debounce effect, in ticks of 500 ms
DebounceWindow == 2

\* Texts the textarea can hold: whitespace only, and two documents.
Texts == {" ", "a", "b"}
\* Error texts a failing compile response can carry ("" is a missing error field).
Diags == {"", "e1"}

NotYet == [req |-> 0, ok |-> FALSE, url |-> 0, msg |-> "null"]

-----------------------------------------------------------------------------
(* Helpers of the editor *)

\* String.prototype.trim on the modelled texts
Trim(code) == IF code = " " THEN "" ELSE code

\* SetState that drops every update
SetState_Dropped(old, new) == old

\* React ignores state updates of an unmounted component
SetState(old, new) == IF mounted THEN new ELSE old

\* errorData.error || 'Failed to compile LaTeX'
ErrorMessage(d) == IF d = "" THEN "Failed to compile LaTeX" ELSE d

\* Object URLs created and not yet revoked
LiveUrls == (1..created) \ revoked

PendingIds == {t.id : t \in timers}

\* The id setTimeout returns: a positive number not in use
FreshTimerId == CHOOSE i \in 1..(MaxTimers + 2) : i \notin PendingIds \cup {compileTimeout}

\* clearTimeout(id) on a set of pending timers
ClearTimeout(ts, id) == {t \in ts : t.id # id}

\* DebounceEffect without the clearTimeout calls
DebounceEffect_NoClear(ts, ref, code) ==
    ts \cup {[id |-> FreshTimerId, remaining |-> DebounceWindow, code |-> code]}

\* Effect cleanup followed by effect body, Editor.tsx:115-129
DebounceEffect(ts, ref, code) ==
    LET cleaned == IF ref # 0 THEN ClearTimeout(ts, ref) ELSE ts
    IN  cleaned \cup {[id |-> FreshTimerId, remaining |-> DebounceWindow, code |-> code]}

\* RevokePrevious that forgets to revoke
RevokePrevious_Skip(rev, ref) == rev

\* Revoke previous URL if exists, Editor.tsx:96-99
RevokePrevious(rev, ref) == IF ref # 0 THEN rev \cup {ref} ELSE rev

-----------------------------------------------------------------------------
InitEditor ==
    /\ latexCode = "a"
    /\ pdfUrl = 0
    /\ isCompiling = FALSE
    /\ error = "null"
    /\ pdfUrlRef = 0
    /\ mounted = TRUE
    \* the debounce effect has run once on mount
    /\ compileTimeout = 1
    /\ timers = {[id |-> 1, remaining |-> DebounceWindow, code |-> "a"]}
    /\ inflight = {}
    /\ issued = 0
    /\ created = 0
    /\ revoked = {}
    /\ handled = NotYet
    /\ newest = NotYet
    /\ sentFaithful = TRUE
    /\ sinceEdit = 0
    /\ callsSinceEdit = 0
    /\ sentSinceEdit = 0
    /\ burstEdits = 0
    /\ streak = 0
    /\ spoiled = FALSE
    /\ emptySinceSend = FALSE

\* onChange of the textarea: setLatexCode(code), then the debounce effect re-runs
Edit(code) ==
    /\ mounted
    /\ code # latexCode
    /\ Cardinality(timers) < MaxTimers
    /\ latexCode' = code
    /\ timers' = DebounceEffect(timers, compileTimeout, code)
    /\ compileTimeout' = FreshTimerId
    /\ sinceEdit' = 0
    /\ callsSinceEdit' = 0
    /\ sentSinceEdit' = 0
    /\ burstEdits' = IF timers # {} /\ burstEdits >= 1 THEN 2 ELSE 1
    /\ UNCHANGED <<pdfUrl, isCompiling, error, pdfUrlRef, mounted, inflight, issued,
                   created, revoked>>
    /\ UNCHANGED <<handled, newest, sentFaithful, streak, spoiled, emptySinceSend>>
    /\ UNCHANGED <<endpointVars, segVars, docVars, storeVars>>

\* Half a second passes; a timer that is due fires before time moves on
Tick ==
    /\ \A t \in timers : t.remaining > 0
    /\ timers' = {[t EXCEPT !.remaining = t.remaining - 1] : t \in timers}
    /\ sinceEdit' = IF sinceEdit < DebounceWindow THEN sinceEdit + 1 ELSE sinceEdit
    /\ UNCHANGED <<latexCode, pdfUrl, isCompiling, error, compileTimeout, pdfUrlRef,
                   mounted, inflight, issued, created, revoked>>
    /\ UNCHANGED <<handled, newest, sentFaithful, callsSinceEdit, sentSinceEdit,
                   burstEdits, streak, spoiled, emptySinceSend>>
    /\ UNCHANGED <<endpointVars, segVars, docVars, storeVars>>

\* The timer callback runs compileLatex(code) with an empty source, Editor.tsx:63-67
CompileEmpty(t) ==
    /\ t \in timers /\ t.remaining = 0
    /\ Trim(t.code) = ""
    /\ timers' = timers \ {t}
    /\ pdfUrl' = SetState(pdfUrl, 0)
    /\ pdfUrlRef' = 0
    /\ callsSinceEdit' = callsSinceEdit + 1
    /\ streak' = 0
    /\ spoiled' = TRUE
    /\ emptySinceSend' = TRUE
    /\ UNCHANGED <<latexCode, isCompiling, error, compileTimeout, mounted, inflight,
                   issued, created, revoked>>
    /\ UNCHANGED <<handled, newest, sentFaithful, sinceEdit, sentSinceEdit, burstEdits>>
    /\ UNCHANGED <<endpointVars, segVars, docVars, storeVars>>

\* The timer callback runs compileLatex(code) up to the fetch, Editor.tsx:69-79
CompileStart(t) ==
    /\ t \in timers /\ t.remaining = 0
    /\ Trim(t.code) # ""
    /\ issued < MaxRequests
    /\ timers' = timers \ {t}
    /\ isCompiling' = SetState(isCompiling, TRUE)
    /\ error' = SetState(error, "null")
    /\ issued' = issued + 1
    /\ inflight' = inflight \cup {issued + 1}
    /\ newest' = NotYet
    /\ sentFaithful' = (sentFaithful /\ t.code = latexCode /\ sinceEdit = DebounceWindow)
    /\ callsSinceEdit' = callsSinceEdit + 1
    /\ sentSinceEdit' = sentSinceEdit + 1
    /\ emptySinceSend' = FALSE
    /\ UNCHANGED <<latexCode, pdfUrl, compileTimeout, pdfUrlRef, mounted, created,
                   revoked>>
    /\ UNCHANGED <<handled, sinceEdit, burstEdits, streak, spoiled>>
    /\ UNCHANGED <<endpointVars, segVars, docVars, storeVars>>

\* Published that hands the preview the URL it replaces
Published_Previous(previous, newPdfUrl) == previous

\* The argument of setPdfUrl on success, Editor.tsx:101-103
Published(previous, newPdfUrl) == newPdfUrl

\* The response of request k is ok: Editor.tsx:85-103 and the finally block
CompileSuccess(k) ==
    /\ k \in inflight
    /\ inflight' = inflight \ {k}
    /\ revoked' = RevokePrevious(revoked, pdfUrlRef)
    /\ created' = created + 1
    /\ pdfUrlRef' = created + 1
    /\ pdfUrl' = SetState(pdfUrl, Published(pdfUrlRef, created + 1))
    /\ isCompiling' = SetState(isCompiling, FALSE)
    /\ handled' = [req |-> k, ok |-> TRUE, url |-> created + 1, msg |-> "null"]
    /\ newest' = IF k = issued THEN handled' ELSE newest
    /\ streak' = streak + 1
    /\ UNCHANGED <<latexCode, error, compileTimeout, mounted, timers, issued>>
    /\ UNCHANGED <<sentFaithful, sinceEdit, callsSinceEdit, sentSinceEdit, burstEdits,
                   spoiled, emptySinceSend>>
    /\ UNCHANGED <<endpointVars, segVars, docVars, storeVars>>

\* The response of request k is not ok, or the fetch rejects: Editor.tsx:81-84, 104-111
CompileFailure(k, d) ==
    /\ k \in inflight
    /\ inflight' = inflight \ {k}
    /\ error' = SetState(error, ErrorMessage(d))
    /\ pdfUrl' = SetState(pdfUrl, 0)
    /\ pdfUrlRef' = 0
    /\ isCompiling' = SetState(isCompiling, FALSE)
    /\ handled' = [req |-> k, ok |-> FALSE, url |-> 0, msg |-> ErrorMessage(d)]
    /\ newest' = IF k = issued THEN handled' ELSE newest
    /\ streak' = 0
    /\ spoiled' = TRUE
    /\ UNCHANGED <<latexCode, compileTimeout, mounted, timers, issued, created, revoked>>
    /\ UNCHANGED <<sentFaithful, sinceEdit, callsSinceEdit, sentSinceEdit, burstEdits,
                   emptySinceSend>>
    /\ UNCHANGED <<endpointVars, segVars, docVars, storeVars>>

\* Unmount: the cleanups of both effects run, Editor.tsx:53-59 and 124-128
Unmount ==
    /\ mounted
    /\ mounted' = FALSE
    /\ revoked' = RevokePrevious(revoked, pdfUrlRef)
    /\ timers' = IF compileTimeout # 0 THEN ClearTimeout(timers, compileTimeout) ELSE timers
    /\ UNCHANGED <<latexCode, pdfUrl, isCompiling, error, compileTimeout, pdfUrlRef,
                   inflight, issued, created>>
    /\ UNCHANGED editorHistory
    /\ UNCHANGED <<endpointVars, segVars, docVars, storeVars>>

NextEditor ==
    \/ \E code \in Texts : Edit(code)
    \/ Tick
    \/ \E t \in timers : CompileEmpty(t)
    \/ \E t \in timers : CompileStart(t)
    \/ \E k \in inflight : CompileSuccess(k)
    \/ \E k \in inflight, d \in Diags : CompileFailure(k, d)
    \/ Unmount

-----------------------------------------------------------------------------
(* Claims about the auto-compiling editor, checked under SpecEditor *)

\* A response is handled in this step
Resolving == inflight' # inflight /\ issued' = issued

\* The object URLs created by the current streak of successes
StreakUrls == (created - streak + 1)..created

\* C1: once every issued request has resolved, the published state (pdfUrl,
\* error) is the Success or Failure outcome of the request issued last.
C1_LastIssuedWins ==
    (mounted /\ issued >= 1 /\ inflight = {} /\ ~emptySinceSend) =>
        IF newest.ok
        THEN pdfUrl = newest.url /\ pdfUrlRef = newest.url /\ error = "null"
        ELSE error = newest.msg /\ pdfUrl = 0

\* C2: the response of a request older than the most recently issued one never
\* changes the published state (pdfUrl, pdfUrlRef, error).
C2_StaleResponseDiscarded ==
    [][(mounted /\ Resolving /\ handled'.req < issued) =>
           (pdfUrl' = pdfUrl /\ pdfUrlRef' = pdfUrlRef /\ error' = error)]_vars

\* C3: at most 2 object URLs are created and not yet revoked, and at most 1
\* whenever no compile is in progress.
C3_AtMostTwoLiveUrls ==
    mounted =>
        /\ Cardinality(LiveUrls) <= 2
        /\ (inflight = {} /\ ~isCompiling) => Cardinality(LiveUrls) <= 1

\* C4: a failing compile after an earlier success neither revokes nor drops the
\* last-good URL: pdfUrl and pdfUrlRef keep it, next to the error.
C4_FailureKeepsLastGood ==
    [][(mounted /\ Resolving /\ ~handled'.ok /\ pdfUrlRef # 0) =>
           /\ pdfUrlRef' = pdfUrlRef
           /\ pdfUrl' = pdfUrl
           /\ pdfUrlRef \notin revoked'
           /\ error' # "null"]_vars

\* C5 (as stated): a burst of edits followed by a quiet debounce window issues
\* exactly one compile request, carrying the text of the last edit; no request is
\* issued while the burst lasts.
C5_OneRequestPerBurst ==
    /\ (mounted /\ timers = {}) => sentSinceEdit = 1
    /\ timers # {} => sentSinceEdit = 0
    /\ sentFaithful

\* C5 (amended): a burst followed by a quiet debounce window makes exactly one
\* compileLatex call with the text of the last edit; it sends exactly one request
\* when that text is not blank and none when it is blank; every edit restarts the
\* one timer and nothing is called or sent while the burst lasts.
C5_OneCallPerBurst ==
    /\ (mounted /\ timers = {}) =>
           /\ callsSinceEdit = 1
           /\ sentSinceEdit = (IF Trim(latexCode) = "" THEN 0 ELSE 1)
    /\ timers # {} => (callsSinceEdit = 0 /\ sentSinceEdit = 0)
    /\ Cardinality(timers) <= 1
    /\ \A t \in timers : t.code = latexCode /\ t.remaining = DebounceWindow - sinceEdit
    /\ sentFaithful

\* A burst of two or more edits, then quiet, has sent its one request.
C5_Witness ==
    mounted /\ timers = {} /\ burstEdits = 2 /\ sentSinceEdit = 1 /\ latexCode = "b"

C13_TeardownReleasesAll ==
    [][/\ (mounted /\ ~mounted') =>
              /\ LiveUrls' = {}
              /\ timers' = {}
              /\ RevokePrevious(revoked', pdfUrlRef') = revoked'
              /\ ClearTimeout(timers', compileTimeout') = timers'
       /\ ~mounted => issued' = issued]_vars

\* C14: once a compile has succeeded, whenever no compile is in progress the
\* editor shows an artifact or an error with text, never the neutral placeholder
\* (pdfUrl empty and error null).
C14_NoPlaceholderAfterSuccess ==
    (mounted /\ created >= 1 /\ ~isCompiling /\ inflight = {}) =>
        ~(pdfUrl = 0 /\ error = "null")

\* C30: a compile response that arrives after the editor has been torn down
\* creates no object URL: once teardown has run, the number of un-revoked object
\* URLs is 0 and stays 0, even if a request was in flight at teardown.
C30_NoUrlAfterTeardown ==
    [][/\ ~mounted => created' = created
       /\ ~mounted' => (1..created') \ revoked' = {}]_vars

\* C31: the compiling indicator matches the outstanding requests: whenever
\* isCompiling is false no compile request is in flight, and whenever isCompiling
\* is true at least one is, also when several requests overlap.
C31_IndicatorMatchesInflight ==
    mounted => (isCompiling <=> inflight # {})

\* C32: before teardown the URL the editor exposes to the preview is never one
\* that has been revoked: after every handler pdfUrl is either empty or equal to
\* pdfUrlRef.current, which is un-revoked.
C32_ExposedUrlIsLive ==
    mounted => (pdfUrl = 0 \/ (pdfUrl = pdfUrlRef /\ pdfUrl \notin revoked))

\* An artifact has replaced an earlier one and is the one exposed
C32_Witness ==
    mounted /\ pdfUrl # 0 /\ revoked # {} /\ pdfUrl = pdfUrlRef

\* No timer pending, no request in flight, the indicator off
Quiet == timers = {} /\ inflight = {} /\ isCompiling = FALSE

\* The request bound keeps a pending timer from sending
Capped == issued = MaxRequests /\ \E t \in timers : Trim(t.code) # ""

-----------------------------------------------------------------------------
(* The compile endpoint: POST of documentService.ts:170-245 *)

Invocations == 1..MaxInvocations

\* Request bodies: content missing or empty, or one of two documents
Contents == {"", "x", "y"}

Exts == {"tex", "pdf", "log", "aux"}

NoResponse == [status |-> 0, kind |-> "none", body |-> "none"]

\* What pdflatex makes of a source
Compiled(src) == <<"pdf", src>>

\* join(tempDir, `latex-${Date.now()}.tex`): the name is the millisecond stamp
TempFile(t) == t

\* The files fs.unlink is called on in the close handler, documentService.ts:220-225
CleanupFiles(stamp) == {<<stamp, e>> : e \in Exts}

\* unlink of each file in `files`, errors ignored
Unlink(files, gone) == [f \in (DOMAIN files) \ gone |-> files[f]]

\* Files written over what is there
WriteFiles(files, new) == new @@ files

\* The files of invocation i still present in tmpdir
Residue(i) == {f \in DOMAIN fs : f[1] = tempFile[i]}

InitEndpoint ==
    /\ now = 0
    /\ serverUp = TRUE
    /\ fs = <<>>
    /\ pc = [i \in Invocations |-> "idle"]
    /\ content = [i \in Invocations |-> ""]
    /\ tempFile = [i \in Invocations |-> 0]
    /\ launched = [i \in Invocations |-> FALSE]
    /\ exitCode = [i \in Invocations |-> 0]
    /\ pdfBuffer = [i \in Invocations |-> "none"]
    /\ response = [i \in Invocations |-> NoResponse]

\* A millisecond passes
ClockTick ==
    /\ now < MaxClock
    /\ now' = now + 1
    /\ UNCHANGED <<serverUp, fs, pc, content, tempFile, launched, exitCode, pdfBuffer,
                   response>>

\* NoContent that lets every body through
NoContent_Never(c) == FALSE

\* `!content`, documentService.ts:174
NoContent(c) == c = ""

\* POST up to `await writeFile`, documentService.ts:171-187
PostReceive(i, c) ==
    /\ serverUp /\ pc[i] = "idle"
    /\ content' = [content EXCEPT ![i] = c]
    /\ IF NoContent(c)
       THEN /\ pc' = [pc EXCEPT ![i] = "done"]
            /\ response' = [response EXCEPT ![i] =
                   [status |-> 400, kind |-> "error", body |-> "No content provided"]]
            /\ UNCHANGED tempFile
       ELSE /\ pc' = [pc EXCEPT ![i] = "writing"]
            /\ tempFile' = [tempFile EXCEPT ![i] = TempFile(now)]
            /\ UNCHANGED response
    /\ UNCHANGED <<now, serverUp, fs, launched, exitCode, pdfBuffer>>

\* writeFile completes and spawn('pdflatex', ...) is called, documentService.ts:187-196
WriteAndSpawn(i, ok) ==
    /\ serverUp /\ pc[i] = "writing"
    /\ fs' = WriteFiles(fs, <<tempFile[i], "tex">> :> content[i])
    /\ launched' = [launched EXCEPT ![i] = ok]
    /\ pc' = [pc EXCEPT ![i] = "running"]
    /\ UNCHANGED <<now, serverUp, content, tempFile, exitCode, pdfBuffer, response>>

\* pdflatex runs on tempFile and exits. kind is what the source leads to: "ok"
\* (a pdf, exit 0), "error" (-halt-on-error: a log, exit 1) or "nopdf" (exit 0
\* with no page of output). A source file that is gone is an error with no output.
RunCompiler(i, kind) ==
    /\ serverUp /\ pc[i] = "running" /\ launched[i]
    /\ LET tex == <<tempFile[i], "tex">>
           pdf == <<tempFile[i], "pdf">> :> Compiled(fs[tex])
           log == <<tempFile[i], "log">> :> "log"
           aux == <<tempFile[i], "aux">> :> "aux"
       IN  IF tex \notin DOMAIN fs
           THEN /\ UNCHANGED fs
                /\ exitCode' = [exitCode EXCEPT ![i] = 1]
           ELSE /\ fs' = CASE kind = "ok" -> WriteFiles(fs, pdf @@ log @@ aux)
                           [] kind = "nopdf" -> WriteFiles(fs, log @@ aux)
                           [] OTHER -> WriteFiles(fs, log)
                /\ exitCode' = [exitCode EXCEPT ![i] = IF kind = "error" THEN 1 ELSE 0]
    /\ pc' = [pc EXCEPT ![i] = "exited"]
    /\ UNCHANGED <<now, serverUp, content, tempFile, launched, pdfBuffer, response>>

\* spawn could not launch pdflatex: the child emits 'error', which has no listener,
\* so it is thrown as an uncaught exception. Either the process dies of it, or a
\* host handler swallows it and 'close' never fires: the promise never settles.
LaunchError(i, dies) ==
    /\ serverUp /\ pc[i] = "running" /\ ~launched[i]
    /\ IF dies
       THEN serverUp' = FALSE /\ pc' = [pc EXCEPT ![i] = "uncaught"]
       ELSE UNCHANGED serverUp /\ pc' = [pc EXCEPT ![i] = "pending"]
    /\ UNCHANGED <<now, fs, content, tempFile, launched, exitCode, pdfBuffer, response>>

\* ErrorResponse that answers with status 200
ErrorResponse_Status200(message) == [status |-> 200, kind |-> "error", body |-> message]

\* The catch of POST, documentService.ts:238-244
ErrorResponse(message) == [status |-> 500, kind |-> "error", body |-> message]

\* The 'close' handler up to readFile, documentService.ts:209-217, and the catch
\* of POST for what it rejects with, documentService.ts:228-230 and 238-244
CloseHandler(i) ==
    /\ serverUp /\ pc[i] = "exited"
    /\ IF exitCode[i] # 0
       THEN /\ pc' = [pc EXCEPT ![i] = "done"]
            /\ response' = [response EXCEPT ![i] = ErrorResponse("LaTeX compilation failed")]
            /\ UNCHANGED pdfBuffer
       ELSE IF <<tempFile[i], "pdf">> \notin DOMAIN fs
       THEN /\ pc' = [pc EXCEPT ![i] = "done"]
            /\ response' = [response EXCEPT ![i] = ErrorResponse("ENOENT")]
            /\ UNCHANGED pdfBuffer
       ELSE /\ pc' = [pc EXCEPT ![i] = "cleanup"]
            /\ pdfBuffer' = [pdfBuffer EXCEPT ![i] = fs[<<tempFile[i], "pdf">>]]
            /\ UNCHANGED response
    /\ UNCHANGED <<now, serverUp, fs, content, tempFile, launched, exitCode>>

\* The unlinks, resolve(pdf) and the 200 response, documentService.ts:219-236
CleanupAndRespond(i) ==
    /\ serverUp /\ pc[i] = "cleanup"
    /\ fs' = Unlink(fs, CleanupFiles(tempFile[i]))
    /\ pc' = [pc EXCEPT ![i] = "done"]
    /\ response' = [response EXCEPT ![i] =
           [status |-> 200, kind |-> "pdf", body |-> pdfBuffer[i]]]
    /\ UNCHANGED <<now, serverUp, content, tempFile, launched, exitCode, pdfBuffer>>

NextEndpoint ==
    \/ ClockTick /\ UNCHANGED <<editorVars, segVars, docVars, storeVars>>
    \/ \E i \in Invocations, c \in Contents : PostReceive(i, c) /\ UNCHANGED <<editorVars, segVars, docVars, storeVars>>
    \/ \E i \in Invocations, ok \in BOOLEAN : WriteAndSpawn(i, ok) /\ UNCHANGED <<editorVars, segVars, docVars, storeVars>>
    \/ \E i \in Invocations, kind \in {"ok", "error", "nopdf"} :
           RunCompiler(i, kind) /\ UNCHANGED <<editorVars, segVars, docVars, storeVars>>
    \/ \E i \in Invocations, dies \in BOOLEAN : LaunchError(i, dies) /\ UNCHANGED <<editorVars, segVars, docVars, storeVars>>
    \/ \E i \in Invocations : CloseHandler(i) /\ UNCHANGED <<editorVars, segVars, docVars, storeVars>>
    \/ \E i \in Invocations : CleanupAndRespond(i) /\ UNCHANGED <<editorVars, segVars, docVars, storeVars>>

-----------------------------------------------------------------------------
(* The text/math segmenter: the exec loop of processLatex, part_006:108-124 *)

\* The characters that matter to mathRegex; "x" stands for any other character
Chars == {"$", "\\", "[", "]", "(", ")", "\n", "x"}

\* Longer inputs over two characters: they hold two matches side by side
LongInputs == [1..(MaxLen + 2) -> {"$", "x"}]

Inputs == UNION {[1..n -> Chars] : n \in 0..MaxLen} \cup LongInputs

\* The least element of a non-empty set of numbers
Least(S) == CHOOSE m \in S : \A k \in S : m <= k

\* First position >= from holding character c, or 0
IndexOf(s, c, from) ==
    LET hits == {j \in from..Len(s) : s[j] = c}
    IN  IF hits = {} THEN 0 ELSE Least(hits)

\* First position >= from where c1 c2 starts, or 0
IndexOfPair(s, c1, c2, from) ==
    LET hits == {j \in from..(Len(s) - 1) : s[j] = c1 /\ s[j + 1] = c2}
    IN  IF hits = {} THEN 0 ELSE Least(hits)

StartsAt(s, i, c1, c2) == i + 1 <= Len(s) /\ s[i] = c1 /\ s[i + 1] = c2

\* \$\$[^$]*\$\$ tried at position i: the position of its last character, or 0
DisplayDollarEnd(s, i) ==
    IF ~StartsAt(s, i, "$", "$") THEN 0
    ELSE LET j == IndexOf(s, "$", i + 2)
         IN  IF j # 0 /\ StartsAt(s, j, "$", "$") THEN j + 1 ELSE 0

\* \\\[[^]*?\\\] and \\\([^]*?\\\) tried at position i
BackslashPairEnd(s, i, open, close) ==
    IF ~StartsAt(s, i, "\\", open) THEN 0
    ELSE LET j == IndexOfPair(s, "\\", close, i + 2)
         IN  IF j # 0 THEN j + 1 ELSE 0

\* InlineDollarEnd that lets an unterminated $ run to the end of the input
InlineDollarEnd_ToEnd(s, i) == IF i < Len(s) /\ s[i] = "$" THEN Len(s) ELSE 0

\* InlineDollarEnd whose content may hold a line break
InlineDollarEnd_AcrossBreak(s, i) ==
    IF ~(i <= Len(s) /\ s[i] = "$") THEN 0
    ELSE LET j == IndexOf(s, "$", i + 1)
         IN  IF j >= i + 2 THEN j ELSE 0

\* \$[^$\n]+?\$ tried at position i
InlineDollarEnd(s, i) ==
    IF ~(i <= Len(s) /\ s[i] = "$") THEN 0
    ELSE LET j == IndexOf(s, "$", i + 1)
         IN  IF j >= i + 2 /\ \A m \in (i + 1)..(j - 1) : s[m] # "\n" THEN j ELSE 0

\* The alternatives of mathRegex in their order, tried at position i
MatchEnd(s, i) ==
    IF DisplayDollarEnd(s, i) # 0 THEN DisplayDollarEnd(s, i)
    ELSE IF BackslashPairEnd(s, i, "[", "]") # 0 THEN BackslashPairEnd(s, i, "[", "]")
    ELSE IF BackslashPairEnd(s, i, "(", ")") # 0 THEN BackslashPairEnd(s, i, "(", ")")
    ELSE InlineDollarEnd(s, i)

\* mathRegex.exec(code) with lastIndex = from - 1: the leftmost match, or index 0
Exec(s, from) ==
    LET starts == {i \in from..Len(s) : MatchEnd(s, i) # 0}
    IN  IF starts = {} THEN [index |-> 0, end |-> 0]
        ELSE [index |-> Least(starts), end |-> MatchEnd(s, Least(starts))]

\* Slice that loses the first character of the text between two matches
Slice_SkipFirst(s, from, to) == SubSeq(s, from + 2, to)

\* code.slice(from, to), with 0-based from and exclusive to
Slice(s, from, to) == SubSeq(s, from + 1, to)

\* The contents of the parts, concatenated in order
RECURSIVE Concat(_)
Concat(ps) == IF ps = <<>> THEN <<>> ELSE Head(ps).content \o Concat(Tail(ps))

InitSeg ==
    /\ segCode \in Inputs
    /\ parts = <<>>
    /\ lastIndex = 0
    /\ segPc = "scan"
    /\ rendered = <<>>
    /\ html = <<>>

InitSegIdle ==
    /\ segCode = <<>>
    /\ parts = <<>>
    /\ lastIndex = 0
    /\ segPc = "scan"
    /\ rendered = <<>>
    /\ html = <<>>

\* A text part is pushed before every match, an empty one too
HasTextBefore_Always(index, last) == TRUE

\* match.index > lastIndex, part_006:115
HasTextBefore(index, last) == index > last

\* One iteration of the while loop, part_006:114-120
ExecMatch ==
    /\ segPc = "scan"
    /\ LET match == Exec(segCode, lastIndex + 1)
           text == [type |-> "text", content |-> Slice(segCode, lastIndex, match.index - 1)]
           math == [type |-> "math", content |-> Slice(segCode, match.index - 1, match.end)]
       IN  /\ match.index # 0
           /\ parts' = IF HasTextBefore(match.index - 1, lastIndex)
                       THEN parts \o <<text, math>>
                       ELSE Append(parts, math)
           /\ lastIndex' = match.end
    /\ UNCHANGED <<segCode, segPc, rendered, html>>
    /\ UNCHANGED <<editorVars, endpointVars, docVars, storeVars>>

\* exec returns null and the rest of the input is pushed, part_006:114, 122-124
ExecNull ==
    /\ segPc = "scan"
    /\ Exec(segCode, lastIndex + 1).index = 0
    /\ parts' = IF lastIndex < Len(segCode)
                THEN Append(parts, [type |-> "text",
                                    content |-> Slice(segCode, lastIndex, Len(segCode))])
                ELSE parts
    /\ segPc' = "done"
    /\ UNCHANGED <<segCode, lastIndex, rendered, html>>
    /\ UNCHANGED <<editorVars, endpointVars, docVars, storeVars>>

\* s.replace(/^AB|CD$/g, ''): a leading AB goes, and a trailing CD that starts
\* after it
StripEnds(s, a, b, c, d) ==
    LET from == IF StartsAt(s, 1, a, b) THEN 3 ELSE 1
        to == IF Len(s) - 1 >= from /\ StartsAt(s, Len(s) - 1, c, d)
              THEN Len(s) - 2
              ELSE Len(s)
    IN  SubSeq(s, from, to)

\* mathContent: the three replace calls in their order, part_006:140-143
MathContent(c) ==
    StripEnds(StripEnds(StripEnds(c, "$", "$", "$", "$"), "\\", "[", "\\", "]"),
              "\\", "(", "\\", ")")

\* DisplayMode that is true for every math part
DisplayMode_Always(c) == TRUE

\* DisplayMode that forgets the \[ delimiter
DisplayMode_DollarOnly(c) == StartsAt(c, 1, "$", "$")

\* displayMode: startsWith('$$') || startsWith('\\['), part_006:145
DisplayMode(c) == StartsAt(c, 1, "$", "$") \/ StartsAt(c, 1, "\\", "[")

\* The text branch of the render loop: line breaks become <br>, part_006:132-136
\* (the characters &, < and > are not among Chars)
EscapeText(c) == [i \in 1..Len(c) |-> IF c[i] = "\n" THEN "<br>" ELSE c[i]]

\* displayMode ? `\\[${mathContent}\\]` : `\\(${mathContent}\\)`, part_006:153
Fallback(displayMode, mathContent) ==
    IF displayMode
    THEN <<"\\", "[">> \o mathContent \o <<"\\", "]">>
    ELSE <<"\\", "(">> \o mathContent \o <<"\\", ")">>

\* What a throwing katex.renderToString leaves in html in part_006: the catch of
\* the math branch appends the error span, part_006:155-158
OnThrow(displayMode, mathContent) == <<"<error>">>

\* The same in part_007: the inner catch appends the fallback, part_007:161-170
OnThrowInner(displayMode, mathContent) == Fallback(displayMode, mathContent)

\* What one iteration of the render loop appends, part_006:129-161. `threw` says
\* that katex.renderToString throws for this part, `caught` is what the catch
\* that receives it appends; "<katex>" stands for the markup KaTeX returns.
RenderPart(p, threw, caught) ==
    IF p.type = "text"
    THEN [type |-> "text", displayMode |-> FALSE, mathContent |-> <<>>,
          threw |-> FALSE, html |-> EscapeText(p.content)]
    ELSE [type |-> "math", displayMode |-> DisplayMode(p.content),
          mathContent |-> MathContent(p.content), threw |-> threw,
          html |-> IF threw THEN caught ELSE <<"<katex>">>]

\* The per-part outputs appended in order
RECURSIVE JoinHtml(_)
JoinHtml(rs) == IF rs = <<>> THEN <<>> ELSE Head(rs).html \o JoinHtml(Tail(rs))

\* The indices of the math parts
MathParts == {k \in 1..Len(parts) : parts[k].type = "math"}

\* The render loop over all parts, part_006:126-164; katex.renderToString throws
\* for the parts in `fails`
Render(fails) ==
    /\ segPc = "done"
    /\ rendered' = [k \in 1..Len(parts) |->
           RenderPart(parts[k], k \in fails,
                      OnThrow(DisplayMode(parts[k].content), MathContent(parts[k].content)))]
    /\ html' = JoinHtml(rendered')
    /\ segPc' = "rendered"
    /\ UNCHANGED <<segCode, parts, lastIndex>>
    /\ UNCHANGED <<editorVars, endpointVars, docVars, storeVars>>

\* The render loop of part_007:140-183, whose inner try/catch around
\* katex.renderToString appends the fallback
RenderInner(fails) ==
    /\ segPc = "done"
    /\ rendered' = [k \in 1..Len(parts) |->
           RenderPart(parts[k], k \in fails,
                      OnThrowInner(DisplayMode(parts[k].content),
                                   MathContent(parts[k].content)))]
    /\ html' = JoinHtml(rendered')
    /\ segPc' = "rendered"
    /\ UNCHANGED <<segCode, parts, lastIndex>>
    /\ UNCHANGED <<editorVars, endpointVars, docVars, storeVars>>

NextSegmenter ==
    \/ ExecMatch
    \/ ExecNull
    \/ \E fails \in SUBSET MathParts : Render(fails)
    \/ \E fails \in SUBSET MathParts : RenderInner(fails)

-----------------------------------------------------------------------------
(* The document editor: Editor of unnamed/part_005. The title is left as     *)
(* loaded; time advances in ticks of 500 ms.                                *)

\* setTimeout delays in ticks of 500 ms: the auto-compile effect (1000 ms), the
\* timer of compileLatex (500 ms) and the auto-save effect (2000 ms)
AutoCompileDelay == 2
CompileDelay == 1
AutoSaveDelay == 4

\* Contents of the textarea; "" is falsy in `if (!content)`
DocTexts == {"", "a", "b"}

\* Timer ids: the timer of an effect is cleared before the effect sets its next
\* one, so each effect keeps one id; the timers of compileLatex take the others
SaveTimerId == 1
AutoTimerId == 2
CompileTimerIds == 3..(MaxTimers + 3)

DocSetState(old, new) == IF docMounted THEN new ELSE old

DocLiveUrls == (1..docCreated) \ docRevoked

Timer(id, kind, rem, c, d) ==
    [id |-> id, kind |-> kind, remaining |-> rem, content |-> c, doc |-> d]

\* The id setTimeout returns in compileLatex: the least id that is not pending
FreshId(ts) == Least({i \in CompileTimerIds : i \notin {t.id : t \in ts}})

NoDocument == [id |-> 0, content |-> "", createdAt |-> 0, updatedAt |-> 0]

\* `doc_${Date.now()}`: the identifier is the millisecond stamp
DocumentId(t) == t

\* FindIndex that takes the first document for any id
FindIndex_First(store, id) == IF store = <<>> THEN 0 ELSE 1

\* docs.findIndex(d => d.id === id), 1-based; 0 is -1
FindIndex(store, id) ==
    LET hits == {k \in 1..Len(store) : store[k].id = id}
    IN  IF hits = {} THEN 0 ELSE Least(hits)

\* saveDocument(doc) at time t, documentService.ts:54-92: [ok, id, doc, store];
\* id 0 is a missing id, ok FALSE is the thrown 'Document not found'
SaveDocument(store, id, c, t) ==
    IF id # 0
    THEN LET index == FindIndex(store, id)
             updatedDoc == [store[index] EXCEPT !.content = c, !.updatedAt = t]
         IN  IF index = 0
             THEN [ok |-> FALSE, id |-> 0, doc |-> NoDocument, store |-> store]
             ELSE [ok |-> TRUE, id |-> id, doc |-> updatedDoc,
                   store |-> [store EXCEPT ![index] = updatedDoc]]
    ELSE LET newDoc == [id |-> DocumentId(t), content |-> c, createdAt |-> t,
                        updatedAt |-> t]
         IN  [ok |-> TRUE, id |-> newDoc.id, doc |-> newDoc,
              store |-> Append(store, newDoc)]

\* The editor reads no time stamp: its saves all carry this one
DocStamp == 1

\* The effects that re-run after a render, part_005:189-210. The auto-save effect
\* re-runs when content, document or isNew changed; the auto-compile effect when
\* content or compileLatex (that is content, document?.id) changed.
RunEffects(ts, c, d, isNew, compileToo) ==
    LET t1 == ClearTimeout(ts, docAutoSaveId)
        hasSave == d # 0 \/ isNew
        t2 == IF hasSave
              THEN t1 \cup {Timer(SaveTimerId, "save", AutoSaveDelay, c, d)}
              ELSE t1
        t3 == IF compileToo THEN ClearTimeout(t2, docAutoCompileId) ELSE t2
    IN  [timers |-> IF compileToo
                    THEN t3 \cup {Timer(AutoTimerId, "auto", AutoCompileDelay, c, d)}
                    ELSE t3,
         saveId |-> IF hasSave THEN SaveTimerId ELSE 0,
         autoId |-> IF compileToo THEN AutoTimerId ELSE docAutoCompileId]

\* RequestBody that reads the content of the editor when the timer fires
RequestBody_Current(t, current) == current

\* The body of the request the compile timer sends: savedDoc.content, part_005:106
RequestBody(t, current) == t.content

\* The object-URL calls of the success path in their order, part_005:124-131
ReplaceOps(ref) == IF ref # 0 THEN <<"revoke", "create">> ELSE <<"create">>

InitDoc(isNew) ==
    /\ docContent = "a"
    /\ docId = IF isNew THEN 0 ELSE 1
    /\ docIsNew = isNew
    /\ docStore = IF isNew
                  THEN <<>>
                  ELSE << [id |-> 1, content |-> "a", createdAt |-> DocStamp,
                           updatedAt |-> DocStamp] >>
    /\ docPdfUrl = 0
    /\ docIsCompiling = FALSE
    /\ docError = "null"
    /\ docCompileTimeout = 0
    /\ docPdfUrlRef = 0
    /\ docMounted = TRUE
    \* both effects have run on the loaded content
    /\ docAutoSaveId = SaveTimerId
    /\ docAutoCompileId = AutoTimerId
    /\ docTimers = {Timer(SaveTimerId, "save", AutoSaveDelay, "a", IF isNew THEN 0 ELSE 1),
                    Timer(AutoTimerId, "auto", AutoCompileDelay, "a", IF isNew THEN 0 ELSE 1)}
    /\ docInflight = {}
    /\ docIssued = 0
    /\ docCreated = 0
    /\ docRevoked = {}
    /\ docTriggers = 1
    /\ docFailedSince = FALSE
    /\ docOps = <<>>
    /\ docReplaced = FALSE

\* CancelPending that leaves the earlier timer alone
CancelPending_Skip(ts, ref) == ts

\* Clear any existing timeout, part_005:86-89
CancelPending(ts, ref) == IF ref # 0 THEN ClearTimeout(ts, ref) ELSE ts

\* compileLatex() of the render whose content is c and document?.id is d, called
\* with the pending timers ts, part_005:80-140 up to the setTimeout, and the
\* effects of the render that setDocument causes
CompileLatex(ts, c, d) ==
    LET saved == SaveDocument(docStore, d, c, DocStamp)
        t0 == CancelPending(ts, docCompileTimeout)
        fc == FreshId(t0)
        tc == t0 \cup {Timer(fc, "compile", CompileDelay, c, saved.id)}
        eff == RunEffects(tc, docContent, saved.id, FALSE, saved.id # docId)
    IN  IF saved.ok
        THEN /\ docStore' = saved.store
             /\ docId' = saved.id
             /\ docIsNew' = FALSE
             /\ docTimers' = eff.timers
             /\ docAutoSaveId' = eff.saveId
             /\ docAutoCompileId' = eff.autoId
             /\ docCompileTimeout' = fc
             /\ docIsCompiling' = TRUE
             /\ docError' = "null"
             /\ docReplaced' = (t0 # ts)
        ELSE /\ docTimers' = t0
             /\ docError' = "Failed to save document"
             /\ docIsCompiling' = FALSE
             /\ docReplaced' = FALSE
             /\ UNCHANGED <<docStore, docId, docIsNew, docAutoSaveId, docAutoCompileId,
                            docCompileTimeout>>

\* onChange of the textarea: setContent(c); both effects re-run. The textarea is
\* rendered only while content is not empty, part_005:212-219
DocEdit(c) ==
    /\ docMounted
    /\ docContent # ""
    /\ c # docContent
    /\ LET eff == RunEffects(docTimers, c, docId, docIsNew, TRUE)
       IN  /\ docTimers' = eff.timers
           /\ docAutoSaveId' = eff.saveId
           /\ docAutoCompileId' = eff.autoId
    /\ docContent' = c
    /\ docTriggers' = IF docTriggers < 2 THEN docTriggers + 1 ELSE 2
    /\ docFailedSince' = FALSE
    /\ UNCHANGED <<docId, docIsNew, docPdfUrl, docIsCompiling, docError,
                   docCompileTimeout, docPdfUrlRef, docMounted, docInflight, docIssued,
                   docCreated, docRevoked, docStore, docOps, docReplaced>>
    /\ UNCHANGED <<editorVars, endpointVars, segVars, storeVars>>

\* onChange of the title input: setTitle(...). saveCurrentDocument and with it
\* compileLatex are new functions, so both effects re-run, part_005:77, 140, 199,
\* 210. The input is rendered only while content is not empty, part_005:212-219
DocTitleEdit ==
    /\ docMounted
    /\ docContent # ""
    /\ LET eff == RunEffects(docTimers, docContent, docId, docIsNew, TRUE)
       IN  /\ docTimers' = eff.timers
           /\ docAutoSaveId' = eff.saveId
           /\ docAutoCompileId' = eff.autoId
    /\ UNCHANGED <<docContent, docId, docIsNew, docPdfUrl, docIsCompiling, docError,
                   docCompileTimeout, docPdfUrlRef, docMounted, docInflight, docIssued,
                   docCreated, docRevoked, docStore, docHistory>>
    /\ UNCHANGED <<editorVars, endpointVars, segVars, storeVars>>

\* Half a second passes; a timer that is due fires before time moves on
DocTick ==
    /\ docTimers # {}
    /\ \A t \in docTimers : t.remaining > 0
    /\ docTimers' = {[t EXCEPT !.remaining = t.remaining - 1] : t \in docTimers}
    /\ UNCHANGED <<docContent, docId, docIsNew, docPdfUrl, docIsCompiling, docError,
                   docCompileTimeout, docPdfUrlRef, docMounted, docAutoSaveId,
                   docAutoCompileId, docInflight, docIssued, docCreated, docRevoked,
                   docStore, docTriggers, docFailedSince, docOps, docReplaced>>
    /\ UNCHANGED <<editorVars, endpointVars, segVars, storeVars>>

\* onClick of the Compile button (disabled while isCompiling), part_005:255-257
DocCompilePress ==
    /\ docMounted
    /\ docContent # ""
    /\ ~docIsCompiling
    /\ CompileLatex(docTimers, docContent, docId)
    /\ docTriggers' = IF docTriggers < 2 THEN docTriggers + 1 ELSE 2
    /\ docFailedSince' = FALSE
    /\ UNCHANGED <<docContent, docPdfUrl, docPdfUrlRef, docMounted, docInflight,
                   docIssued, docCreated, docRevoked, docOps>>
    /\ UNCHANGED <<editorVars, endpointVars, segVars, storeVars>>

\* The callback of the auto-compile effect, part_005:203-207
DocAutoCompileFire(t) ==
    /\ t \in docTimers /\ t.kind = "auto" /\ t.remaining = 0
    /\ IF t.content # ""
       THEN CompileLatex(docTimers \ {t}, t.content, t.doc)
       ELSE /\ docTimers' = docTimers \ {t}
            /\ UNCHANGED <<docStore, docId, docIsNew, docAutoSaveId, docAutoCompileId,
                           docCompileTimeout, docIsCompiling, docError, docReplaced>>
    /\ UNCHANGED <<docContent, docPdfUrl, docPdfUrlRef, docMounted, docInflight,
                   docIssued, docCreated, docRevoked, docTriggers, docFailedSince, docOps>>
    /\ UNCHANGED <<editorVars, endpointVars, segVars, storeVars>>

\* The callback of the auto-save effect: saveCurrentDocument() of the render whose
\* content and document are those of the timer, part_005:192-196 and 55-77
DocAutoSaveFire(t) ==
    /\ t \in docTimers /\ t.kind = "save" /\ t.remaining = 0
    /\ LET ts == docTimers \ {t}
           saved == SaveDocument(docStore, t.doc, t.content, DocStamp)
           eff == RunEffects(ts, docContent, saved.id, FALSE, saved.id # docId)
       IN  IF t.content = ""
           THEN /\ docTimers' = ts
                /\ UNCHANGED <<docStore, docId, docIsNew, docAutoSaveId,
                               docAutoCompileId, docError>>
           ELSE IF saved.ok
           THEN /\ docStore' = saved.store
                /\ docId' = saved.id
                /\ docIsNew' = FALSE
                /\ docTimers' = eff.timers
                /\ docAutoSaveId' = eff.saveId
                /\ docAutoCompileId' = eff.autoId
                /\ UNCHANGED docError
           ELSE /\ docTimers' = ts
                /\ docError' = "Failed to save document"
                /\ UNCHANGED <<docStore, docId, docIsNew, docAutoSaveId, docAutoCompileId>>
    /\ UNCHANGED <<docContent, docPdfUrl, docIsCompiling, docCompileTimeout,
                   docPdfUrlRef, docMounted, docInflight, docIssued, docCreated,
                   docRevoked, docTriggers, docFailedSince, docOps, docReplaced>>
    /\ UNCHANGED <<editorVars, endpointVars, segVars, storeVars>>

\* The callback of the timer of compileLatex up to the fetch, part_005:99-107
DocCompileTimerFire(t) ==
    /\ t \in docTimers /\ t.kind = "compile" /\ t.remaining = 0
    /\ docIssued < MaxRequests
    /\ docTimers' = docTimers \ {t}
    /\ docIssued' = docIssued + 1
    /\ docInflight' = docInflight \cup
           {[req |-> docIssued + 1, body |-> RequestBody(t, docContent)]}
    /\ docTriggers' = IF docTriggers > 0 THEN docTriggers - 1 ELSE 0
    /\ UNCHANGED <<docContent, docId, docIsNew, docPdfUrl, docIsCompiling, docError,
                   docCompileTimeout, docPdfUrlRef, docMounted, docAutoSaveId,
                   docAutoCompileId, docCreated, docRevoked, docStore, docFailedSince,
                   docOps>>
    /\ docReplaced' = FALSE
    /\ UNCHANGED <<editorVars, endpointVars, segVars, storeVars>>

\* The response of request r is ok, part_005:113-131 and the finally block
DocCompileSuccess(r) ==
    /\ r \in docInflight
    /\ docInflight' = docInflight \ {r}
    /\ docOps' = ReplaceOps(docPdfUrlRef)
    /\ docRevoked' = RevokePrevious(docRevoked, docPdfUrlRef)
    /\ docCreated' = docCreated + 1
    /\ docPdfUrlRef' = docCreated + 1
    /\ docPdfUrl' = DocSetState(docPdfUrl, docCreated + 1)
    /\ docIsCompiling' = DocSetState(docIsCompiling, FALSE)
    /\ UNCHANGED <<docContent, docId, docIsNew, docError, docCompileTimeout, docMounted,
                   docAutoSaveId, docAutoCompileId, docTimers, docIssued, docStore,
                   docTriggers, docFailedSince, docReplaced>>
    /\ UNCHANGED <<editorVars, endpointVars, segVars, storeVars>>

\* The response of request r is not ok, or the fetch rejects, part_005:109-111, 133-138
DocCompileFailure(r, d) ==
    /\ r \in docInflight
    /\ docInflight' = docInflight \ {r}
    /\ docError' = DocSetState(docError, "Failed to compile LaTeX. Please check your syntax.")
    /\ docIsCompiling' = DocSetState(docIsCompiling, FALSE)
    /\ docFailedSince' = docMounted
    /\ UNCHANGED <<docContent, docId, docIsNew, docPdfUrl, docCompileTimeout,
                   docPdfUrlRef, docMounted, docAutoSaveId, docAutoCompileId, docTimers,
                   docIssued, docCreated, docRevoked, docStore, docTriggers, docOps, docReplaced>>
    /\ UNCHANGED <<editorVars, endpointVars, segVars, storeVars>>

\* The cleanup of the unmount effect, part_005:177-186, on revoked URLs and timers
DocTeardown(rev, ts) ==
    [revoked |-> RevokePrevious(rev, docPdfUrlRef),
     timers |-> IF docCompileTimeout # 0 THEN ClearTimeout(ts, docCompileTimeout) ELSE ts]

\* Unmount: the cleanups of the unmount effect and of both timer effects run,
\* part_005:177-186, 198, 209
DocUnmount ==
    /\ docMounted
    /\ docMounted' = FALSE
    /\ docRevoked' = DocTeardown(docRevoked, docTimers).revoked
    /\ docTimers' = ClearTimeout(ClearTimeout(DocTeardown(docRevoked, docTimers).timers,
                                              docAutoSaveId), docAutoCompileId)
    /\ UNCHANGED <<docContent, docId, docIsNew, docPdfUrl, docIsCompiling, docError,
                   docCompileTimeout, docPdfUrlRef, docAutoSaveId, docAutoCompileId,
                   docInflight, docIssued, docCreated, docStore, docTriggers,
                   docFailedSince, docOps>>
    /\ docReplaced' = FALSE
    /\ UNCHANGED <<editorVars, endpointVars, segVars, storeVars>>

\* The documents leave localStorage behind the editor's back: deleteDocument from
\* another page, documentService.ts:94-102, or the storage is cleared
DocStorageLost ==
    /\ FindIndex(docStore, docId) # 0
    /\ docStore' = <<>>
    /\ UNCHANGED <<docContent, docId, docIsNew, docPdfUrl, docIsCompiling, docError,
                   docCompileTimeout, docPdfUrlRef, docMounted, docAutoSaveId,
                   docAutoCompileId, docTimers, docInflight, docIssued, docCreated,
                   docRevoked, docTriggers, docFailedSince, docOps, docReplaced>>
    /\ UNCHANGED <<editorVars, endpointVars, segVars, storeVars>>

NextDocEditor ==
    \/ \E c \in DocTexts : DocEdit(c)
    \/ DocTitleEdit
    \/ DocTick
    \/ DocCompilePress
    \/ \E t \in docTimers : DocAutoCompileFire(t)
    \/ \E t \in docTimers : DocAutoSaveFire(t)
    \/ \E t \in docTimers : DocCompileTimerFire(t)
    \/ \E r \in docInflight : DocCompileSuccess(r)
    \/ \E r \in docInflight, d \in Diags : DocCompileFailure(r, d)
    \/ DocUnmount
    \/ DocStorageLost

-----------------------------------------------------------------------------
(* The document store: saveDocument and deleteDocument called by the pages,
   documentService.ts:54-102, with the clock of Date.now() *)

MaxStoreClock == 2
MaxDocs == 2

StoreTexts == {"a", "b"}

\* the identifiers a caller can hold; 0 is a call without an id
StoreIds == 0..MaxStoreClock

NoCall == [call |-> "none", given |-> 0, ok |-> TRUE, doc |-> NoDocument]

InitStore ==
    /\ storeNow = 1
    /\ lastCall = NoCall

\* A millisecond passes
StoreTick ==
    /\ storeNow < MaxStoreClock
    /\ storeNow' = storeNow + 1
    /\ UNCHANGED <<lastCall, docState, docHistory>>
    /\ UNCHANGED <<editorVars, endpointVars, segVars>>

\* saveDocument(doc), documentService.ts:54-92; safeLocalStorage.setItem swallows
\* a failed write (21-29), and the document is returned all the same
StoreSave(id, c, written) ==
    /\ id = 0 => Len(docStore) < MaxDocs
    /\ LET r == SaveDocument(docStore, id, c, storeNow)
       IN  /\ docStore' = IF written THEN r.store ELSE docStore
           /\ lastCall' = [call |-> "save", given |-> id, ok |-> r.ok, doc |-> r.doc]
    /\ UNCHANGED <<storeNow, docContent, docId, docIsNew, docPdfUrl, docIsCompiling,
                   docError, docCompileTimeout, docPdfUrlRef, docMounted,
                   docAutoSaveId, docAutoCompileId, docTimers, docInflight,
                   docIssued, docCreated, docRevoked, docHistory>>
    /\ UNCHANGED <<editorVars, endpointVars, segVars>>

\* deleteDocument(id), documentService.ts:94-102
StoreDelete(id) ==
    /\ id # 0
    /\ LET Keep(d) == d.id # id
       IN  docStore' = SelectSeq(docStore, Keep)
    /\ lastCall' = [call |-> "delete", given |-> id, ok |-> TRUE, doc |-> NoDocument]
    /\ UNCHANGED <<storeNow, docContent, docId, docIsNew, docPdfUrl, docIsCompiling,
                   docError, docCompileTimeout, docPdfUrlRef, docMounted,
                   docAutoSaveId, docAutoCompileId, docTimers, docInflight,
                   docIssued, docCreated, docRevoked, docHistory>>
    /\ UNCHANGED <<editorVars, endpointVars, segVars>>

NextStore ==
    \/ StoreTick
    \/ \E id \in StoreIds, c \in StoreTexts, written \in BOOLEAN : StoreSave(id, c, written)
    \/ \E id \in StoreIds : StoreDelete(id)

-----------------------------------------------------------------------------
(* Specifications, one per component *)

Init == InitEditor /\ InitEndpoint /\ InitSegIdle /\ InitDoc(FALSE) /\ InitStore

InitSegmenter == InitEditor /\ InitEndpoint /\ InitSeg /\ InitDoc(FALSE) /\ InitStore

\* The document editor opens an existing document or a new one
InitDocEditor == InitEditor /\ InitEndpoint /\ InitSegIdle /\ InitStore /\ \E isNew \in BOOLEAN : InitDoc(isNew)

\* The store starts empty
InitStoreEmpty == InitEditor /\ InitEndpoint /\ InitSegIdle /\ InitStore /\ InitDoc(TRUE)

SpecEditor == Init /\ [][NextEditor]_vars

\* The event loop runs every due timer callback and time moves on; every issued
\* request is answered
FairEditor ==
    /\ WF_vars(Tick)
    /\ WF_vars(\E t \in timers : CompileEmpty(t) \/ CompileStart(t))
    /\ WF_vars(\E k \in inflight : CompileSuccess(k) \/ \E d \in Diags : CompileFailure(k, d))

SpecEditorFair == Init /\ [][NextEditor]_vars /\ FairEditor

SpecEndpoint == Init /\ [][NextEndpoint]_vars

SpecSegmenter == InitSegmenter /\ [][NextSegmenter]_vars

SpecDocEditor == InitDocEditor /\ [][NextDocEditor]_vars

SpecStore == InitStoreEmpty /\ [][NextStore]_vars

-----------------------------------------------------------------------------
(* Claims about processLatex, checked under SpecSegmenter *)

\* C7: the segmentation is a lossless partition: the contents of the output
\* segments, concatenated in order, are the input exactly.
C7_LosslessPartition ==
    /\ segPc = "scan" => Concat(parts) = Slice(segCode, 0, lastIndex)
    /\ segPc = "done" => Concat(parts) = segCode

\* Text, math, text again: all three pushes of the loop have happened.
C7_Witness ==
    /\ segPc = "done" /\ Len(parts) = 3
    /\ parts[1].type = "text" /\ parts[2].type = "math" /\ parts[3].type = "text"

\* The positions of the $ characters of the input
DollarAt == {i \in 1..Len(segCode) : segCode[i] = "$"}

\* The greatest element of a non-empty set of numbers
Greatest(S) == CHOOSE m \in S : \A k \in S : m >= k

\* Plain text: no $ and no opening \[ or \(
PlainText(s) ==
    \A i \in 1..Len(s) :
        s[i] # "$" /\ ~StartsAt(s, i, "\\", "[") /\ ~StartsAt(s, i, "\\", "(")

\* s holds a complete \(...\) or \[...\] pair
HasBackslashPair(s) ==
    \E p, q \in 1..Len(s) :
        /\ q >= p + 2
        /\ \/ StartsAt(s, p, "\\", "(") /\ StartsAt(s, q, "\\", ")")
           \/ StartsAt(s, p, "\\", "[") /\ StartsAt(s, q, "\\", "]")

\* The input is text, one $...$ pair around non-empty content with no line break
\* (and no $), then text
InlinePairInput ==
    /\ Cardinality(DollarAt) = 2
    /\ LET i == Least(DollarAt)
           j == Greatest(DollarAt)
       IN  /\ 1 < i /\ i + 1 < j /\ j < Len(segCode)
           /\ \A m \in (i + 1)..(j - 1) : segCode[m] # "\n"
           /\ PlainText(SubSeq(segCode, 1, i - 1))
           /\ PlainText(SubSeq(segCode, j + 1, Len(segCode)))

\* C18: for text, one single-$ pair around non-empty content without $ or line
\* break, then text, the output is exactly three segments: the text before, one
\* math segment holding both $ delimiters with displayMode false, the text after.
C18_InlinePairThreeSegments ==
    (segPc = "rendered" /\ InlinePairInput) =>
        LET i == Least(DollarAt)
            j == Greatest(DollarAt)
        IN  /\ parts = << [type |-> "text", content |-> SubSeq(segCode, 1, i - 1)],
                          [type |-> "math", content |-> SubSeq(segCode, i, j)],
                          [type |-> "text", content |-> SubSeq(segCode, j + 1, Len(segCode))] >>
            /\ Len(rendered) = 3
            /\ rendered[2].type = "math" /\ rendered[2].displayMode = FALSE
            /\ rendered[1].type = "text" /\ rendered[3].type = "text"

\* An input like "a $x^2$ b" has been segmented and rendered.
C18_Witness == segPc = "rendered" /\ InlinePairInput /\ segCode[1] = "x"

\* c is delimited by $$...$$ or \[...\]
DisplayDelimited(c) ==
    /\ Len(c) >= 4
    /\ \/ StartsAt(c, 1, "$", "$") /\ StartsAt(c, Len(c) - 1, "$", "$")
       \/ StartsAt(c, 1, "\\", "[") /\ StartsAt(c, Len(c) - 1, "\\", "]")

\* c is delimited by $...$ or \(...\)
InlineDelimited(c) ==
    \/ Len(c) >= 3 /\ c[1] = "$" /\ c[2] # "$" /\ c[Len(c)] = "$"
    \/ Len(c) >= 4 /\ StartsAt(c, 1, "\\", "(") /\ StartsAt(c, Len(c) - 1, "\\", ")")

\* C19: a math segment has displayMode true exactly when it is delimited by
\* $$...$$ or \[...\] and false when delimited by $...$ or \(...\); the input
\* "$$x$$" yields the single segment {math, "$$x$$", displayMode true}.
C19_DisplayModeByDelimiter ==
    segPc = "rendered" =>
        /\ \A k \in 1..Len(parts) :
               parts[k].type = "math" =>
                   /\ rendered[k].displayMode = DisplayDelimited(parts[k].content)
                   /\ rendered[k].displayMode = ~InlineDelimited(parts[k].content)
        /\ segCode = <<"$", "$", "x", "$", "$">> =>
               /\ parts = << [type |-> "math", content |-> segCode] >>
               /\ rendered[1].displayMode = TRUE

\* "$$x$$" has been segmented and rendered.
C19_Witness == segPc = "rendered" /\ segCode = <<"$", "$", "x", "$", "$">>

\* The input is plain text, then an opening $ that nothing closes: it is the only
\* $ of the input
UnterminatedDollarInput ==
    /\ Cardinality(DollarAt) = 1
    /\ Least(DollarAt) < Len(segCode)
    /\ PlainText(SubSeq(segCode, 1, Least(DollarAt) - 1))

\* What follows the unterminated $
AfterDollar == SubSeq(segCode, Least(DollarAt) + 1, Len(segCode))

\* C20 (as stated): for an opening single $ with no closing $ before the end of
\* the input no math segment is emitted: everything from that $ to the end of the
\* input is text inside one text segment, and nothing is dropped.
C20_UnterminatedIsOneText ==
    (segPc = "rendered" /\ UnterminatedDollarInput) =>
        parts = << [type |-> "text", content |-> segCode] >>

\* C20 (amended): an opening single $ that nothing closes never starts a math
\* segment: it lies in a text segment with the text before it, and nothing is
\* dropped. Everything from that $ to the end of the input is one text segment
\* when no complete \(...\) or \[...\] follows it; a complete pair after it is
\* still emitted as a math segment.
C20_UnterminatedIsText ==
    (segPc = "rendered" /\ UnterminatedDollarInput) =>
        /\ parts[1].type = "text"
        /\ Len(parts[1].content) >= Least(DollarAt)
        /\ Concat(parts) = segCode
        /\ ~HasBackslashPair(AfterDollar) =>
               parts = << [type |-> "text", content |-> segCode] >>
        /\ HasBackslashPair(AfterDollar) =>
               \E k \in 2..Len(parts) : parts[k].type = "math"

\* Positions k whose part and the next have the same kind
SameKindPairs(ps, kind) ==
    {k \in 1..(Len(ps) - 1) : ps[k].type = kind /\ ps[k + 1].type = kind}

\* C23: the segment sequence of processLatex strictly alternates between text and
\* math: no two consecutive segments have the same kind.
C23_StrictAlternation ==
    segPc = "done" =>
        SameKindPairs(parts, "text") = {} /\ SameKindPairs(parts, "math") = {}

\* C23, amended: no two consecutive segments are both text and no text segment
\* is empty; two consecutive segments are both math exactly where a match
\* starts at the position at which the match before it ended.
C23_AlternationButAdjacentMath ==
    segPc = "done" =>
        /\ SameKindPairs(parts, "text") = {}
        /\ \A k \in 1..Len(parts) : parts[k].type = "text" => parts[k].content # <<>>
        /\ \A k \in 1..(Len(parts) - 1) :
               LET endK == Len(Concat(SubSeq(parts, 1, k)))
               IN  (parts[k].type = "math" /\ parts[k + 1].type = "math")
                       <=> /\ parts[k].type = "math"
                           /\ Exec(segCode, endK + 1).index = endK + 1

\* Two matches side by side have been split, and a text part lies before a match
C23_Witness ==
    /\ segPc = "done"
    /\ SameKindPairs(parts, "math") # {}
    /\ \E k \in 1..(Len(parts) - 1) : parts[k].type = "text"

\* The position in the input at which part k starts
PartStart(k) == Len(Concat(SubSeq(parts, 1, k - 1))) + 1

\* The part that holds position i of the input
PartAt(i) ==
    CHOOSE k \in 1..Len(parts) : PartStart(k) <= i /\ i < PartStart(k) + Len(parts[k].content)

\* A $ at position i whose next $ lies beyond a line break
DollarBeforeBreak(i) ==
    /\ segCode[i] = "$"
    /\ LET j == IndexOf(segCode, "$", i + 1)
       IN  j # 0 /\ \E m \in (i + 1)..(j - 1) : segCode[m] = "\n"

\* C24: no math segment delimited by single $ contains a line break: an opening $
\* whose next $ lies beyond a line break is not matched with it and stays text
\* (an opening $ is one that no match begun before it contains).
C24_NoBreakInInlineDollar ==
    segPc = "done" =>
        /\ \A k \in 1..Len(parts) :
               (parts[k].type = "math" /\ parts[k].content[1] = "$"
                    /\ parts[k].content[2] # "$")
                   => \A m \in 1..Len(parts[k].content) : parts[k].content[m] # "\n"
        /\ \A i \in 1..Len(segCode) :
               DollarBeforeBreak(i) =>
                   \/ parts[PartAt(i)].type = "text"
                   \/ PartStart(PartAt(i)) < i

\* A $ whose next $ lies beyond a line break stayed text, and a $...$ pair on
\* one line became math
C24_Witness ==
    /\ segPc = "done"
    /\ \E i \in 1..Len(segCode) : DollarBeforeBreak(i) /\ parts[PartAt(i)].type = "text"
    /\ \E k \in 1..Len(parts) :
           parts[k].type = "math" /\ parts[k].content[1] = "$" /\ parts[k].content[2] # "$"

\* The content of a math part between its own opening and closing delimiter
Inner(c) ==
    IF StartsAt(c, 1, "$", "$") \/ StartsAt(c, 1, "\\", "[") \/ StartsAt(c, 1, "\\", "(")
    THEN SubSeq(c, 3, Len(c) - 2)
    ELSE SubSeq(c, 2, Len(c) - 1)

\* C33: for every math segment, of each of the four delimiter kinds, the text
\* handed to the math renderer is the segment's content with exactly its own
\* opening and closing delimiter removed and everything between them left intact.
C33_RendererGetsInner ==
    segPc = "rendered" =>
        \A k \in 1..Len(parts) :
            parts[k].type = "math" => rendered[k].mathContent = Inner(parts[k].content)

\* C21: when rendering one math segment fails, that segment's output is the
\* inline error marker, every other segment is rendered as usual, and the final
\* HTML is the per-segment outputs joined in source order.
C21_RenderFailureIsMarked ==
    segPc = "rendered" =>
        /\ Len(rendered) = Len(parts)
        /\ \A k \in 1..Len(parts) :
               rendered[k].html =
                   IF parts[k].type = "text" THEN EscapeText(parts[k].content)
                   ELSE IF rendered[k].threw THEN <<"<error>">>
                   ELSE <<"<katex>">>
        /\ html = JoinHtml(rendered)

\* Text, an unterminated $ and more text came out as one text segment.
C20_Witness ==
    /\ segPc = "rendered" /\ UnterminatedDollarInput
    /\ Least(DollarAt) = 2 /\ Len(segCode) >= 3
    /\ parts = << [type |-> "text", content |-> segCode] >>


-----------------------------------------------------------------------------
(* Claims about the compile endpoint, checked under SpecEndpoint *)

\* Invocation i has chosen its scratch path and has not answered yet
Active(i) == pc[i] \in {"writing", "running", "exited", "cleanup"}

\* Invocation i wrote its scratch file and has returned its response
Returned(i) == pc[i] = "done" /\ response[i].status # 400

\* The launch of pdflatex failed for invocation i and the failure was delivered
SpawnFailed(i) ==
    ~launched[i] /\ pc[i] \in {"uncaught", "pending", "exited", "cleanup", "done"}
        /\ response[i].status # 400

\* C8: on every exit path of an invocation that wrote its scratch file, the
\* scratch .tex and the generated .pdf, .log and .aux are gone when the response
\* is returned.
C8_ScratchRemovedOnEveryExit ==
    \A i \in Invocations : Returned(i) => Residue(i) = {}

\* C9: two invocations that overlap in time use distinct scratch paths, and each
\* success response carries the artifact compiled from its own request's content.
C9_DistinctScratchPaths ==
    /\ \A i, j \in Invocations :
           (i # j /\ Active(i) /\ Active(j)) => tempFile[i] # tempFile[j]
    /\ \A i \in Invocations :
           response[i].status = 200 => response[i].body = Compiled(content[i])

\* C17: a request whose content is missing or empty is answered with an error
\* body and status 400, without writing a scratch file and without spawning the
\* compiler, and nothing happens for it afterwards.
C17_EmptyContentRejected ==
    [][\A i \in Invocations :
           /\ (pc[i] = "idle" /\ pc'[i] # "idle" /\ content'[i] = "") =>
                  /\ pc'[i] = "done"
                  /\ response'[i] = [status |-> 400, kind |-> "error",
                                      body |-> "No content provided"]
                  /\ fs' = fs
                  /\ ~launched'[i]
           /\ (pc[i] = "done" /\ content[i] = "") =>
                  /\ pc'[i] = "done"
                  /\ response'[i] = response[i]
                  /\ ~launched'[i]]_vars

\* An empty request was turned away while another request's scratch file exists.
C17_Witness ==
    \E i, j \in Invocations :
        /\ response[i].status = 400 /\ content[i] = "" /\ pc[i] = "done"
        /\ pc[j] = "running" /\ Residue(j) # {}

\* C25: when the compiler exits with status 0 but the output PDF does not exist,
\* the endpoint responds with an error body and a non-2xx status, as it does for
\* a non-zero exit, and never with a success body.
C25_MissingPdfIsAnError ==
    [][\A i \in Invocations :
          /\ (CloseHandler(i) /\ (exitCode[i] # 0 \/ <<tempFile[i], "pdf">> \notin DOMAIN fs))
                 => /\ response'[i].kind = "error"
                    /\ response'[i].status \notin 200..299
          /\ response[i].kind = "error" => response'[i] = response[i]]_vars

\* The compiler exited with 0 and the request was answered with the read error
C25_Witness ==
    \E i \in Invocations :
        /\ pc[i] = "done" /\ launched[i] /\ exitCode[i] = 0
        /\ response[i] = ErrorResponse("ENOENT")

\* C10: when pdflatex cannot be launched the request still completes with an
\* {error} body and a non-2xx status: no uncaught exception, no request left
\* pending forever.
C10_LaunchFailureAnswered ==
    \A i \in Invocations :
        SpawnFailed(i) =>
            /\ serverUp
            /\ pc[i] = "done"
            /\ response[i].kind = "error"
            /\ response[i].status >= 400

-----------------------------------------------------------------------------
(* Claims about the document editor, checked under SpecDocEditor *)

\* A step that calls compileLatex() and whose saveDocument throws
CompileCallSaveFails ==
    /\ DocCompilePress \/ \E t \in docTimers : DocAutoCompileFire(t)
    /\ docError' = "Failed to save document"

\* C11: the save before a compile attempt is best-effort: when saveDocument fails
\* in compileLatex, the compile request for the current content is still
\* scheduled, and the failure is no more than a warning.
C11_SaveBestEffort ==
    [][CompileCallSaveFails =>
           \E t \in docTimers' : t.kind = "compile" /\ t.content = docContent]_vars

\* The pending timers of compileLatex
CompileTimers(ts) == {t \in ts : t.kind = "compile"}

\* C12: a compile request sends the text as it was when compileLatex created it:
\* the timer it sets holds the content of that moment, an edit changes neither a
\* waiting timer nor a request in flight, and the fetch sends what the timer holds.
C12_SnapshotSent ==
    [][/\ \A t \in CompileTimers(docTimers') \ docTimers :
              t.remaining = CompileDelay => t.content = docContent
       /\ docContent' # docContent =>
              /\ CompileTimers(docTimers') = CompileTimers(docTimers)
              /\ docInflight' = docInflight
       /\ \A r \in docInflight' \ docInflight :
              \E t \in CompileTimers(docTimers) \ docTimers' : r.body = t.content]_vars

\* A request in flight carries the text of its creation after the text was edited
\* while its timer was waiting.
C12_Witness ==
    /\ docMounted /\ docContent = "b"
    /\ \E r \in docInflight : r.req = 1 /\ r.body = "a"
    /\ \E t \in CompileTimers(docTimers) : t.content = "b"

\* C15: when a successful compile replaces an existing artifact, the previous
\* object URL is revoked only after the new one has been created, so the number
\* of live URLs never drops to zero inside the replacement.
C15_ReleaseAfterCreate ==
    \A i, j \in DOMAIN docOps :
        (docOps[i] = "revoke" /\ docOps[j] = "create") => j < i

\* C16: a failed compile is never retried automatically: once a failure is
\* published, a compile request is issued only for an edit, a Compile press or
\* the load that no earlier request has answered.
C16_NoAutomaticRetry ==
    [][(docIssued' > docIssued /\ docFailedSince) => docTriggers > 0]_vars

\* C26: when the compile endpoint answers a request with a failure carrying
\* diagnostic text, the error state the editor publishes for that request
\* contains that diagnostic text.
C26_DiagnosticPublished ==
    [][\A r \in docInflight, d \in Diags :
          (DocCompileFailure(r, d) /\ docMounted /\ d # "") => docError' = d]_vars

\* C28: auto-save quiesces: after the user stops editing, only finitely many
\* saveDocument calls happen, i.e. a completed auto-save does not by itself
\* schedule another auto-save.
C28_AutoSaveQuiesces ==
    [][\A t \in docTimers :
          DocAutoSaveFire(t) => \A u \in docTimers' : u.kind # "save"]_vars

\* C29: a request reaches the compile endpoint only in response to a content
\* edit or a Compile press (the load of the document counts as the first edit):
\* after one content edit followed by quiet exactly one request is sent, and
\* neither saving the document, the first save that assigns its id included, nor
\* changing the title causes another compile.
C29_RequestsOnlyOnTrigger ==
    [][docIssued' > docIssued => docTriggers > 0]_vars

\* C35: at most one 500 ms compile timer is pending at any time: a compileLatex
\* call made while an earlier call's timer is still pending cancels the earlier
\* one, so only the later call sends a request to the compile endpoint.
C35_OneCompileTimer ==
    [][/\ Cardinality(CompileTimers(docTimers')) <= 1
       /\ CompileTimers(docTimers') \ CompileTimers(docTimers) # {}
              => CompileTimers(docTimers) \cap docTimers' = {}
       /\ \A r \in docInflight' \ docInflight :
              CompileTimers(docTimers) \ docTimers' = CompileTimers(docTimers)]_vars

\* A compileLatex call has replaced the pending timer of an earlier call by its own
C35_Witness ==
    /\ docMounted /\ docReplaced
    /\ \E t \in CompileTimers(docTimers) : t.id = docCompileTimeout

-----------------------------------------------------------------------------
(* Claims about the document store, checked under SpecStore *)

StoredIds(store) == {store[k].id : k \in 1..Len(store)}

\* C22: saveDocument without an id returns a document whose id differs from every
\* id already in the store and whose createdAt and updatedAt are the current
\* time; saveDocument with an existing id keeps that document's id and createdAt
\* and sets updatedAt to the current time.
C22_SaveIdentity ==
    [][\A id \in StoreIds, c \in StoreTexts, written \in BOOLEAN :
          StoreSave(id, c, written) =>
              /\ id = 0 =>
                    /\ lastCall'.doc.id \notin StoredIds(docStore)
                    /\ lastCall'.doc.createdAt = storeNow
                    /\ lastCall'.doc.updatedAt = storeNow
              /\ (id # 0 /\ FindIndex(docStore, id) # 0) =>
                    /\ lastCall'.doc.id = id
                    /\ lastCall'.doc.createdAt = docStore[FindIndex(docStore, id)].createdAt
                    /\ lastCall'.doc.updatedAt = storeNow]_vars

\* C34: saveDocument called with an id that is not in the store fails with an
\* error and leaves the stored document list unchanged: no document is added,
\* modified or removed.
C34_UnknownIdRejected ==
    [][\A id \in StoreIds, c \in StoreTexts, written \in BOOLEAN :
          (StoreSave(id, c, written) /\ id # 0 /\ id \notin StoredIds(docStore))
              => /\ lastCall'.ok = FALSE
                 /\ docStore' = docStore]_vars

\* A save with an unknown id has thrown on a store that holds a document
C34_Witness ==
    /\ lastCall.call = "save" /\ lastCall.given # 0 /\ ~lastCall.ok
    /\ docStore # <<>>
    /\ lastCall.given \notin StoredIds(docStore)

====
